---- MODULE Spec2Model ----
(***************************************************************************)
(* Model of multiple_lights.cpp: the superellipsoid mesh generator, the    *)
(* render loop of main() and the key handling of processInput().           *)
(*                                                                         *)
(* Abstractions.                                                           *)
(*  - Positions and directions are integer 3-vectors.  The camera looks    *)
(*    along one of the axis-aligned horizontal directions of Fronts and    *)
(*    one call of Camera::ProcessKeyboard moves it by one unit             *)
(*    (MovementSpeed * deltaTime is taken as the unit of length).          *)
(*  - Floating point values of the mesh are symbolic: a vertex records the *)
(*    grid sample (i, j) and the shape parameters it was computed from.    *)
(*    Exponents are in tenths (11 stands for 1.1).                         *)
(*  - glfwGetTime() is sampled at the instants of Times, where the sine    *)
(*    and cosine of the morph formula are exactly -1, 0 or 1.              *)
(*  - The render loop calls the generator with its default tessellation    *)
(*    (64 x 64 in the source); the loop model uses Stacks x Slices, and    *)
(*    the generator itself is checked for every resolution up to           *)
(*    MaxStacks x MaxSlices under SpecGen.                                 *)
(*  - The environment presses the movement keys only while the camera     *)
(*    stays on the segment InBox; Spec bounds the run by MaxFrames frames.  *)
(*    SpecEdge runs the same loop for MaxEdgeFrames frames with the spawn   *)
(*    key, the quit key and the close button as its only inputs.            *)
(*  - frame, frameLog, samples, registryLog and startupResults are history *)
(*    variables: they record what the program did and what its environment *)
(*    answered, and are read by no step of it.                             *)
(***************************************************************************)
EXTENDS Integers, Sequences, FiniteSets, TLC

VARIABLES
    pc,                      \* position of main()
    exitStatus,              \* <<status>> once main() has returned, <<>> while it runs
    windowShouldClose,       \* GLFW's close flag of the window
    cameraPosition,          \* camera.Position
    cameraFront,             \* camera.Front
    e_pressed_last_frame,    \* the spawn-key latch
    spawnedSuperellipsoids,  \* the instance registry
    superellipsoidVertices,  \* vertex container reused by every generator call
    superellipsoidIndices,   \* index container reused by every generator call
    genArgs,                 \* arguments of the latest generator call
    genCalls,                \* number of generator calls so far
    bufferAlloc,             \* element counts given to glBufferData
    bufferUpdate,            \* element counts given to the latest glBufferSubData
    glCreated,               \* per GL object: number of glGen* calls
    glDeleted,               \* per GL object: number of glDelete* calls
    textureLoaded,           \* whether stbi_load returned data
    frame,                   \* number of loop iterations started
    frameLog,                \* steps executed by the current iteration, in order
    samples,                 \* spawn-key state sampled by each processInput call
    registryLog,             \* registry contents after each processInput call
    startupResults,          \* outcome of each startup call that can fail, in order
    output                   \* messages written to standard output, in order

vars == <<pc, exitStatus, windowShouldClose, cameraPosition, cameraFront,
          e_pressed_last_frame, spawnedSuperellipsoids, superellipsoidVertices,
          superellipsoidIndices, genArgs, genCalls, bufferAlloc, bufferUpdate,
          glCreated, glDeleted, textureLoaded, frame, frameLog, samples,
          registryLog, startupResults, output>>

----------------------------------------------------------------------------
(* Bounds of the model *)

MaxFrames == 3
MaxCoord == 1
Stacks == 2
Slices == 2
MaxStacks == 3
MaxSlices == 3
MaxGenCalls == 2
MaxEdgeFrames == 5

----------------------------------------------------------------------------
(* Vectors *)

VAdd(p, q) == <<p[1] + q[1], p[2] + q[2], p[3] + q[3]>>

VSub(p, q) == <<p[1] - q[1], p[2] - q[2], p[3] - q[3]>>

VScale(p, k) == <<p[1] * k, p[2] * k, p[3] * k>>

Cross(p, q) == <<p[2] * q[3] - p[3] * q[2],
                 p[3] * q[1] - p[1] * q[3],
                 p[1] * q[2] - p[2] * q[1]>>

IsPrefix(s, t) == Len(s) <= Len(t) /\ \A k \in 1..Len(s) : s[k] = t[k]

----------------------------------------------------------------------------
(* The surface generator *)

Vertex(i, j, a, b, c, n1, n2, stacks, slices) ==
    [u         |-> <<i, stacks>>,
     v         |-> <<j, slices>>,
     shape     |-> <<a, b, c, n1, n2>>,
     TexCoords |-> <<<<j, slices>>, <<i, stacks>>>>]

\* Mutant: the inner loop stops one sample short (j < slices).
RECURSIVE VertexRow_Short(_, _, _, _, _, _, _, _, _, _)
VertexRow_Short(vs, i, j, a, b, c, n1, n2, stacks, slices) ==
    IF j < slices
    THEN VertexRow_Short(Append(vs, Vertex(i, j, a, b, c, n1, n2, stacks, slices)),
                         i, j + 1, a, b, c, n1, n2, stacks, slices)
    ELSE vs

RECURSIVE VertexRow(_, _, _, _, _, _, _, _, _, _)
VertexRow(vs, i, j, a, b, c, n1, n2, stacks, slices) ==
    IF j <= slices
    THEN VertexRow(Append(vs, Vertex(i, j, a, b, c, n1, n2, stacks, slices)),
                   i, j + 1, a, b, c, n1, n2, stacks, slices)
    ELSE vs

RECURSIVE VertexLoop(_, _, _, _, _, _, _, _, _)
VertexLoop(vs, i, a, b, c, n1, n2, stacks, slices) ==
    IF i <= stacks
    THEN VertexLoop(VertexRow(vs, i, 0, a, b, c, n1, n2, stacks, slices),
                    i + 1, a, b, c, n1, n2, stacks, slices)
    ELSE vs

\* Mutant: the first triangle is wound the other way.
CellIndices_Flipped(i, j, slices) ==
    LET first  == i * (slices + 1) + j
        second == first + slices + 1
    IN  <<first, first + 1, second, second, second + 1, first + 1>>

CellIndices(i, j, slices) ==
    LET first  == i * (slices + 1) + j
        second == first + slices + 1
    IN  <<first, second, first + 1, second, second + 1, first + 1>>

RECURSIVE IndexRow(_, _, _, _)
IndexRow(is, i, j, slices) ==
    IF j < slices
    THEN IndexRow(is \o CellIndices(i, j, slices), i, j + 1, slices)
    ELSE is

RECURSIVE IndexLoop(_, _, _, _)
IndexLoop(is, i, stacks, slices) ==
    IF i < stacks
    THEN IndexLoop(IndexRow(is, i, 0, slices), i + 1, stacks, slices)
    ELSE is

\* Mutant: the vertex container is not cleared.
ClearVertices_Keep(vertices) == vertices

ClearVertices(vertices) == <<>>

ClearIndices(indices) == <<>>

generateSuperellipsoid(vertices, indices, a, b, c, n1, n2, stacks, slices) ==
    [vertices |-> VertexLoop(ClearVertices(vertices), 0, a, b, c, n1, n2, stacks, slices),
     indices  |-> IndexLoop(ClearIndices(indices), 0, stacks, slices)]

----------------------------------------------------------------------------
(* Program constants and the input alphabet *)

KEY_ESCAPE == "ESCAPE"
KEY_W == "W"
KEY_S == "S"
KEY_A == "A"
KEY_D == "D"
KEY_E == "E"

Keys == {KEY_ESCAPE, KEY_W, KEY_S, KEY_A, KEY_D, KEY_E}

InitialCameraPosition == <<0, 0, 3>>

InitialCameraFront == <<0, 0, -1>>

WorldUp == <<0, 1, 0>>

Fronts == {<<0, 0, -1>>, <<1, 0, 0>>}

SpawnDistance == 2

NumPointLights == 4

UnitScale == 10

GLObjects == {"superellipsoidVAO", "VBO", "EBO", "lightCubeVAO", "lightCubeVBO"}

Times == {"t0", "t1"}

Sin12(t) == IF t = "t0" THEN 0 ELSE 1

Cos08(t) == IF t = "t0" THEN 1 ELSE -1

MorphN1(t) == 2 + (18 * (Sin12(t) * 5 + 5)) \div 10

MorphN2(t) == 2 + (18 * (Cos08(t) * 5 + 5)) \div 10

Exponents == {2, 11, 20}

\* Before the first generator call and before the buffers exist.
NoArgs == [stacks |-> 0, slices |-> 0, n1 |-> 0, n2 |-> 0]

NoBuffer == [vertices |-> 0, indices |-> 0]

Event(op, arg) == [op |-> op, arg |-> arg]

\* One message on standard output; arg is the position a spawn message reports.
Message(text, arg) == [text |-> text, arg |-> arg]

WindowFailedText == "Failed to create GLFW window"

GladFailedText == "Failed to initialize GLAD"

TextureFailedText == "Texture failed to load at path: "

PressEText == "Press E to summon superellipsoid "

SpawnedText == "Superellipsoid spawned at: "

StartupResult(step, ok) == [step |-> step, ok |-> ok]

----------------------------------------------------------------------------
(* Camera *)

ProcessKeyboard(position, front, direction) ==
    LET right == Cross(front, WorldUp)
    IN  CASE direction = "FORWARD"  -> VAdd(position, front)
          [] direction = "BACKWARD" -> VSub(position, front)
          [] direction = "LEFT"     -> VSub(position, right)
          [] direction = "RIGHT"    -> VAdd(position, right)

MovedPosition(position, front, keys) ==
    LET p1 == IF KEY_W \in keys THEN ProcessKeyboard(position, front, "FORWARD") ELSE position
        p2 == IF KEY_S \in keys THEN ProcessKeyboard(p1, front, "BACKWARD") ELSE p1
        p3 == IF KEY_A \in keys THEN ProcessKeyboard(p2, front, "LEFT") ELSE p2
        p4 == IF KEY_D \in keys THEN ProcessKeyboard(p3, front, "RIGHT") ELSE p3
    IN  p4

SpawnPosition(position, front) == VAdd(position, VScale(front, SpawnDistance))

\* The walk of the camera that the environment is allowed to drive: the
\* movement keys are pressed only while they keep the camera on this segment.
InBox(p) ==
    /\ p[1] >= -MaxCoord /\ p[1] <= MaxCoord
    /\ p[3] = InitialCameraPosition[3]

----------------------------------------------------------------------------
(* State after construction of the globals, before main() runs *)

Init ==
    /\ pc = "create_window"
    /\ exitStatus = <<>>
    /\ windowShouldClose = FALSE
    /\ cameraPosition = InitialCameraPosition
    /\ cameraFront = InitialCameraFront
    /\ e_pressed_last_frame = FALSE
    /\ spawnedSuperellipsoids = <<>>
    /\ superellipsoidVertices = <<>>
    /\ superellipsoidIndices = <<>>
    /\ genArgs = NoArgs
    /\ genCalls = 0
    /\ bufferAlloc = NoBuffer
    /\ bufferUpdate = NoBuffer
    /\ glCreated = [o \in GLObjects |-> 0]
    /\ glDeleted = [o \in GLObjects |-> 0]
    /\ textureLoaded = FALSE
    /\ frame = 0
    /\ frameLog = <<>>
    /\ samples = <<>>
    /\ registryLog = <<>>
    /\ startupResults = <<>>
    /\ output = <<>>

----------------------------------------------------------------------------
(* Startup of main() *)

CreateWindow(ok) ==
    /\ pc = "create_window"
    /\ startupResults' = Append(startupResults, StartupResult("window", ok))
    /\ IF ok
       THEN /\ pc' = "load_gl"
            /\ UNCHANGED <<exitStatus, output>>
       ELSE /\ output' = Append(output, Message(WindowFailedText, <<>>))
            /\ exitStatus' = <<-1>>
            /\ pc' = "done"
    /\ UNCHANGED <<windowShouldClose, cameraPosition, cameraFront,
                   e_pressed_last_frame, spawnedSuperellipsoids,
                   superellipsoidVertices, superellipsoidIndices, genArgs,
                   genCalls, bufferAlloc, bufferUpdate, glCreated, glDeleted,
                   textureLoaded, frame, frameLog, samples, registryLog>>

\* Mutant: the diagnostic is printed but the return is missing.
LoadGLLoader_NoReturn(ok) ==
    /\ pc = "load_gl"
    /\ startupResults' = Append(startupResults, StartupResult("glad", ok))
    /\ output' = IF ok THEN output
                        ELSE Append(output, Message(GladFailedText, <<>>))
    /\ pc' = "setup_mesh"
    /\ UNCHANGED <<exitStatus, windowShouldClose, cameraPosition, cameraFront,
                   e_pressed_last_frame, spawnedSuperellipsoids,
                   superellipsoidVertices, superellipsoidIndices, genArgs,
                   genCalls, bufferAlloc, bufferUpdate, glCreated, glDeleted,
                   textureLoaded, frame, frameLog, samples, registryLog>>

LoadGLLoader(ok) ==
    /\ pc = "load_gl"
    /\ startupResults' = Append(startupResults, StartupResult("glad", ok))
    /\ IF ok
       THEN /\ pc' = "setup_mesh"
            /\ UNCHANGED <<exitStatus, output>>
       ELSE /\ output' = Append(output, Message(GladFailedText, <<>>))
            /\ exitStatus' = <<-1>>
            /\ pc' = "done"
    /\ UNCHANGED <<windowShouldClose, cameraPosition, cameraFront,
                   e_pressed_last_frame, spawnedSuperellipsoids,
                   superellipsoidVertices, superellipsoidIndices, genArgs,
                   genCalls, bufferAlloc, bufferUpdate, glCreated, glDeleted,
                   textureLoaded, frame, frameLog, samples, registryLog>>

SetupMesh ==
    /\ pc = "setup_mesh"
    /\ LET mesh == generateSuperellipsoid(superellipsoidVertices, superellipsoidIndices,
                                          UnitScale, UnitScale, UnitScale,
                                          UnitScale, UnitScale, Stacks, Slices)
       IN  /\ superellipsoidVertices' = mesh.vertices
           /\ superellipsoidIndices' = mesh.indices
           /\ bufferAlloc' = [vertices |-> Len(mesh.vertices),
                              indices  |-> Len(mesh.indices)]
    /\ genArgs' = [stacks |-> Stacks, slices |-> Slices,
                   n1 |-> UnitScale, n2 |-> UnitScale]
    /\ genCalls' = genCalls + 1
    /\ glCreated' = [o \in GLObjects |->
                        IF o \in {"superellipsoidVAO", "VBO", "EBO"}
                        THEN glCreated[o] + 1 ELSE glCreated[o]]
    /\ pc' = "setup_light_cube"
    /\ UNCHANGED <<exitStatus, windowShouldClose, cameraPosition, cameraFront,
                   e_pressed_last_frame, spawnedSuperellipsoids, bufferUpdate,
                   glDeleted, textureLoaded, frame, frameLog, samples,
                   registryLog,
                   startupResults, output>>

SetupLightCube ==
    /\ pc = "setup_light_cube"
    /\ glCreated' = [o \in GLObjects |->
                        IF o \in {"lightCubeVAO", "lightCubeVBO"}
                        THEN glCreated[o] + 1 ELSE glCreated[o]]
    /\ pc' = "load_texture"
    /\ UNCHANGED <<exitStatus, windowShouldClose, cameraPosition, cameraFront,
                   e_pressed_last_frame, spawnedSuperellipsoids,
                   superellipsoidVertices, superellipsoidIndices, genArgs,
                   genCalls, bufferAlloc, bufferUpdate, glDeleted,
                   textureLoaded, frame, frameLog, samples, registryLog,
                   startupResults, output>>

loadTexture(ok) ==
    /\ pc = "load_texture"
    /\ textureLoaded' = ok
    /\ startupResults' = Append(startupResults, StartupResult("texture", ok))
    /\ output' = (IF ok THEN output
                         ELSE Append(output, Message(TextureFailedText, <<>>)))
                  \o <<Message(PressEText, <<>>)>>
    /\ pc' = "loop_top"
    /\ UNCHANGED <<exitStatus, windowShouldClose, cameraPosition, cameraFront,
                   e_pressed_last_frame, spawnedSuperellipsoids,
                   superellipsoidVertices, superellipsoidIndices, genArgs,
                   genCalls, bufferAlloc, bufferUpdate, glCreated, glDeleted,
                   frame, frameLog, samples, registryLog>>

----------------------------------------------------------------------------
(* The render loop of main() *)

LoopExit ==
    /\ pc = "loop_top"
    /\ windowShouldClose
    /\ pc' = "teardown"
    /\ UNCHANGED <<exitStatus, windowShouldClose, cameraPosition, cameraFront,
                   e_pressed_last_frame, spawnedSuperellipsoids,
                   superellipsoidVertices, superellipsoidIndices, genArgs,
                   genCalls, bufferAlloc, bufferUpdate, glCreated, glDeleted,
                   textureLoaded, frame, frameLog, samples, registryLog,
                   startupResults, output>>

FrameStart(limit) ==
    /\ pc = "loop_top"
    /\ ~windowShouldClose
    /\ frame < limit
    /\ frame' = frame + 1
    /\ frameLog' = <<>>
    /\ pc' = "input"
    /\ UNCHANGED <<exitStatus, windowShouldClose, cameraPosition, cameraFront,
                   e_pressed_last_frame, spawnedSuperellipsoids,
                   superellipsoidVertices, superellipsoidIndices, genArgs,
                   genCalls, bufferAlloc, bufferUpdate, glCreated, glDeleted,
                   textureLoaded, samples, registryLog,
                   startupResults, output>>

\* Mutant: level-triggered, the latch is not consulted.
ShouldSpawn_Level(e_is_pressed, pressed_last_frame) ==
    e_is_pressed

ShouldSpawn(e_is_pressed, pressed_last_frame) ==
    e_is_pressed /\ ~pressed_last_frame

\* Mutant: the new instance is inserted at the front.
push_front(registry, position) == <<position>> \o registry

push_back(registry, position) == Append(registry, position)

\* Mutant: the spawn position is taken from the camera before the movement
\* keys of the same call are applied.
ProcessInputEffect_SpawnBeforeMove(keys, shouldClose, position, front, pressed_last_frame, registry) ==
    LET e_is_pressed == KEY_E \in keys
        moved        == MovedPosition(position, front, keys)
    IN  [shouldClose |-> (shouldClose \/ KEY_ESCAPE \in keys),
         position    |-> moved,
         registry    |-> IF e_is_pressed /\ ~pressed_last_frame
                         THEN Append(registry, SpawnPosition(position, front))
                         ELSE registry,
         latch       |-> e_is_pressed]

\* Mutant: the latch is written only inside the spawn branch.
ProcessInputEffect_LatchOnSpawn(keys, shouldClose, position, front, pressed_last_frame, registry) ==
    LET e_is_pressed == KEY_E \in keys
        moved        == MovedPosition(position, front, keys)
    IN  [shouldClose |-> (shouldClose \/ KEY_ESCAPE \in keys),
         position    |-> moved,
         registry    |-> IF e_is_pressed /\ ~pressed_last_frame
                         THEN Append(registry, SpawnPosition(moved, front))
                         ELSE registry,
         latch       |-> IF e_is_pressed /\ ~pressed_last_frame
                         THEN e_is_pressed
                         ELSE pressed_last_frame]

\* The assignments of one processInput call, from the keys that are down.
ProcessInputEffect(keys, shouldClose, position, front, pressed_last_frame, registry) ==
    LET e_is_pressed == KEY_E \in keys
        moved        == MovedPosition(position, front, keys)
    IN  [shouldClose |-> (shouldClose \/ KEY_ESCAPE \in keys),
         position    |-> moved,
         registry    |-> IF ShouldSpawn(e_is_pressed, pressed_last_frame)
                         THEN push_back(registry, SpawnPosition(moved, front))
                         ELSE registry,
         latch       |-> e_is_pressed]

\* Mutant: a close request set by the escape key leaves the frame at once.
processInput_Preemptive(keys) ==
    LET effect == ProcessInputEffect(keys, windowShouldClose, cameraPosition,
                                     cameraFront, e_pressed_last_frame,
                                     spawnedSuperellipsoids)
    IN  /\ pc = "input"
        /\ windowShouldClose' = effect.shouldClose
        /\ cameraPosition' = effect.position
        /\ spawnedSuperellipsoids' = effect.registry
        /\ e_pressed_last_frame' = effect.latch
        /\ samples' = Append(samples, KEY_E \in keys)
        /\ registryLog' = Append(registryLog, effect.registry)
        /\ frameLog' = Append(frameLog, Event("input", <<>>))
        /\ pc' = IF effect.shouldClose THEN "teardown" ELSE "regenerate"
        /\ output' = IF ShouldSpawn(KEY_E \in keys, e_pressed_last_frame)
                      THEN Append(output, Message(SpawnedText,
                                      SpawnPosition(effect.position, cameraFront)))
                      ELSE output
        /\ UNCHANGED <<exitStatus, cameraFront, superellipsoidVertices,
                       superellipsoidIndices, genArgs, genCalls, bufferAlloc,
                       bufferUpdate, glCreated, glDeleted, textureLoaded, frame,
                       startupResults>>

processInput(keys) ==
    LET effect == ProcessInputEffect(keys, windowShouldClose, cameraPosition,
                                     cameraFront, e_pressed_last_frame,
                                     spawnedSuperellipsoids)
    IN  /\ pc = "input"
        /\ windowShouldClose' = effect.shouldClose
        /\ cameraPosition' = effect.position
        /\ spawnedSuperellipsoids' = effect.registry
        /\ e_pressed_last_frame' = effect.latch
        /\ samples' = Append(samples, KEY_E \in keys)
        /\ registryLog' = Append(registryLog, effect.registry)
        /\ frameLog' = Append(frameLog, Event("input", <<>>))
        /\ pc' = "regenerate"
        /\ output' = IF ShouldSpawn(KEY_E \in keys, e_pressed_last_frame)
                      THEN Append(output, Message(SpawnedText,
                                      SpawnPosition(effect.position, cameraFront)))
                      ELSE output
        /\ UNCHANGED <<exitStatus, cameraFront, superellipsoidVertices,
                       superellipsoidIndices, genArgs, genCalls, bufferAlloc,
                       bufferUpdate, glCreated, glDeleted, textureLoaded, frame,
                       startupResults>>

Regenerate(t) ==
    /\ pc = "regenerate"
    /\ LET n1   == MorphN1(t)
           n2   == MorphN2(t)
           mesh == generateSuperellipsoid(superellipsoidVertices, superellipsoidIndices,
                                          UnitScale, UnitScale, UnitScale,
                                          n1, n2, Stacks, Slices)
       IN  /\ superellipsoidVertices' = mesh.vertices
           /\ superellipsoidIndices' = mesh.indices
           /\ genArgs' = [stacks |-> Stacks, slices |-> Slices, n1 |-> n1, n2 |-> n2]
    /\ genCalls' = genCalls + 1
    /\ frameLog' = Append(frameLog, Event("regenerate", <<>>))
    /\ pc' = "update_buffers"
    /\ UNCHANGED <<exitStatus, windowShouldClose, cameraPosition, cameraFront,
                   e_pressed_last_frame, spawnedSuperellipsoids, bufferAlloc,
                   bufferUpdate, glCreated, glDeleted, textureLoaded, frame,
                   samples, registryLog,
                   startupResults, output>>

UpdateBuffers ==
    /\ pc = "update_buffers"
    /\ bufferUpdate' = [vertices |-> Len(superellipsoidVertices),
                        indices  |-> Len(superellipsoidIndices)]
    /\ frameLog' = Append(frameLog, Event("update_buffers", <<>>))
    /\ pc' = "draw_primary"
    /\ UNCHANGED <<exitStatus, windowShouldClose, cameraPosition, cameraFront,
                   e_pressed_last_frame, spawnedSuperellipsoids,
                   superellipsoidVertices, superellipsoidIndices, genArgs,
                   genCalls, bufferAlloc, glCreated, glDeleted, textureLoaded,
                   frame, samples, registryLog,
                   startupResults, output>>

DrawPrimary ==
    /\ pc = "draw_primary"
    /\ frameLog' = Append(frameLog, Event("draw_primary", <<>>))
    /\ pc' = "draw_spawned"
    /\ UNCHANGED <<exitStatus, windowShouldClose, cameraPosition, cameraFront,
                   e_pressed_last_frame, spawnedSuperellipsoids,
                   superellipsoidVertices, superellipsoidIndices, genArgs,
                   genCalls, bufferAlloc, bufferUpdate, glCreated, glDeleted,
                   textureLoaded, frame, samples, registryLog,
                   startupResults, output>>

\* Mutant: the loop stops before the newest instance (k < size).
RECURSIVE InstanceDraws_SkipLast(_, _, _)
InstanceDraws_SkipLast(log, registry, k) ==
    IF k < Len(registry)
    THEN InstanceDraws_SkipLast(Append(log, Event("draw_instance", registry[k])), registry, k + 1)
    ELSE log

RECURSIVE InstanceDraws(_, _, _)
InstanceDraws(log, registry, k) ==
    IF k <= Len(registry)
    THEN InstanceDraws(Append(log, Event("draw_instance", registry[k])), registry, k + 1)
    ELSE log

\* Mutant: the draw loop consumes the registry while it draws.
DrawSpawned_Consuming ==
    /\ pc = "draw_spawned"
    /\ frameLog' = InstanceDraws(frameLog, spawnedSuperellipsoids, 1)
    /\ spawnedSuperellipsoids' = <<>>
    /\ pc' = "draw_lights"
    /\ UNCHANGED <<exitStatus, windowShouldClose, cameraPosition, cameraFront,
                   e_pressed_last_frame, superellipsoidVertices,
                   superellipsoidIndices, genArgs, genCalls, bufferAlloc,
                   bufferUpdate, glCreated, glDeleted, textureLoaded, frame,
                   samples, registryLog,
                   startupResults, output>>

DrawSpawned ==
    /\ pc = "draw_spawned"
    /\ frameLog' = InstanceDraws(frameLog, spawnedSuperellipsoids, 1)
    /\ pc' = "draw_lights"
    /\ UNCHANGED <<exitStatus, windowShouldClose, cameraPosition, cameraFront,
                   e_pressed_last_frame, spawnedSuperellipsoids,
                   superellipsoidVertices, superellipsoidIndices, genArgs,
                   genCalls, bufferAlloc, bufferUpdate, glCreated, glDeleted,
                   textureLoaded, frame, samples, registryLog,
                   startupResults, output>>

RECURSIVE LightDraws(_, _)
LightDraws(log, i) ==
    IF i < NumPointLights
    THEN LightDraws(Append(log, Event("draw_light", <<i>>)), i + 1)
    ELSE log

DrawLights ==
    /\ pc = "draw_lights"
    /\ frameLog' = LightDraws(frameLog, 0)
    /\ pc' = "present"
    /\ UNCHANGED <<exitStatus, windowShouldClose, cameraPosition, cameraFront,
                   e_pressed_last_frame, spawnedSuperellipsoids,
                   superellipsoidVertices, superellipsoidIndices, genArgs,
                   genCalls, bufferAlloc, bufferUpdate, glCreated, glDeleted,
                   textureLoaded, frame, samples, registryLog,
                   startupResults, output>>

Present(closeRequested, front) ==
    /\ pc = "present"
    /\ windowShouldClose' = (windowShouldClose \/ closeRequested)
    /\ cameraFront' = front
    /\ frameLog' = Append(frameLog, Event("present", <<>>))
    /\ pc' = "loop_top"
    /\ UNCHANGED <<exitStatus, cameraPosition, e_pressed_last_frame,
                   spawnedSuperellipsoids, superellipsoidVertices,
                   superellipsoidIndices, genArgs, genCalls, bufferAlloc,
                   bufferUpdate, glCreated, glDeleted, textureLoaded, frame,
                   samples, registryLog,
                   startupResults, output>>

Teardown ==
    /\ pc = "teardown"
    /\ glDeleted' = [o \in GLObjects |-> glDeleted[o] + 1]
    /\ exitStatus' = <<0>>
    /\ pc' = "done"
    /\ UNCHANGED <<windowShouldClose, cameraPosition, cameraFront,
                   e_pressed_last_frame, spawnedSuperellipsoids,
                   superellipsoidVertices, superellipsoidIndices, genArgs,
                   genCalls, bufferAlloc, bufferUpdate, glCreated, textureLoaded,
                   frame, frameLog, samples, registryLog,
                   startupResults, output>>

Next ==
    \/ \E ok \in BOOLEAN : CreateWindow(ok)
    \/ \E ok \in BOOLEAN : LoadGLLoader(ok)
    \/ SetupMesh
    \/ SetupLightCube
    \/ \E ok \in BOOLEAN : loadTexture(ok)
    \/ LoopExit
    \/ FrameStart(MaxFrames)
    \/ \E keys \in SUBSET Keys :
          /\ InBox(MovedPosition(cameraPosition, cameraFront, keys))
          /\ processInput(keys)
    \/ \E t \in Times : Regenerate(t)
    \/ UpdateBuffers
    \/ DrawPrimary
    \/ DrawSpawned
    \/ DrawLights
    \/ \E closeRequested \in BOOLEAN, front \in Fronts : Present(closeRequested, front)
    \/ Teardown

Spec == Init /\ [][Next]_vars

----------------------------------------------------------------------------
(* The loop driven by the spawn key, the quit key and the window's close    *)
(* button alone (no movement, no mouse, startup succeeding), over more      *)
(* frames                                                                  *)

EdgeKeys == {KEY_E, KEY_ESCAPE}

EdgeNext ==
    \/ CreateWindow(TRUE)
    \/ LoadGLLoader(TRUE)
    \/ SetupMesh
    \/ SetupLightCube
    \/ loadTexture(TRUE)
    \/ LoopExit
    \/ FrameStart(MaxEdgeFrames)
    \/ \E keys \in SUBSET EdgeKeys : processInput(keys)
    \/ Regenerate("t0")
    \/ UpdateBuffers
    \/ DrawPrimary
    \/ DrawSpawned
    \/ DrawLights
    \/ \E closeRequested \in BOOLEAN : Present(closeRequested, cameraFront)
    \/ Teardown

SpecEdge == Init /\ [][EdgeNext]_vars

\* main() is one sequential thread and none of its steps blocks for ever: a
\* step that can be taken is taken.
FairSpecEdge == Init /\ [][EdgeNext]_vars /\ WF_vars(EdgeNext)

----------------------------------------------------------------------------
(* The generator on its own: any resolution, any exponents, containers     *)
(* reused from one call to the next                                        *)

GenInit ==
    /\ pc = "generator"
    /\ exitStatus = <<>>
    /\ windowShouldClose = FALSE
    /\ cameraPosition = InitialCameraPosition
    /\ cameraFront = InitialCameraFront
    /\ e_pressed_last_frame = FALSE
    /\ spawnedSuperellipsoids = <<>>
    /\ superellipsoidVertices = <<>>
    /\ superellipsoidIndices = <<>>
    /\ genArgs = NoArgs
    /\ genCalls = 0
    /\ bufferAlloc = NoBuffer
    /\ bufferUpdate = NoBuffer
    /\ glCreated = [o \in GLObjects |-> 0]
    /\ glDeleted = [o \in GLObjects |-> 0]
    /\ textureLoaded = FALSE
    /\ frame = 0
    /\ frameLog = <<>>
    /\ samples = <<>>
    /\ registryLog = <<>>
    /\ startupResults = <<>>
    /\ output = <<>>

GenCall(stacks, slices, n1, n2) ==
    /\ pc = "generator"
    /\ genCalls < MaxGenCalls
    /\ LET mesh == generateSuperellipsoid(superellipsoidVertices, superellipsoidIndices,
                                          UnitScale, UnitScale, UnitScale,
                                          n1, n2, stacks, slices)
       IN  /\ superellipsoidVertices' = mesh.vertices
           /\ superellipsoidIndices' = mesh.indices
    /\ genArgs' = [stacks |-> stacks, slices |-> slices, n1 |-> n1, n2 |-> n2]
    /\ genCalls' = genCalls + 1
    /\ UNCHANGED <<pc, exitStatus, windowShouldClose, cameraPosition, cameraFront,
                   e_pressed_last_frame, spawnedSuperellipsoids, bufferAlloc,
                   bufferUpdate, glCreated, glDeleted, textureLoaded, frame,
                   frameLog, samples, registryLog,
                   startupResults, output>>

GenNext ==
    \E stacks \in 1..MaxStacks, slices \in 1..MaxSlices, n1 \in Exponents, n2 \in Exponents :
        GenCall(stacks, slices, n1, n2)

SpecGen == GenInit /\ [][GenNext]_vars

----------------------------------------------------------------------------
(* Properties *)

TypeOK ==
    /\ pc \in {"create_window", "load_gl", "setup_mesh", "setup_light_cube",
               "load_texture", "loop_top", "input", "regenerate",
               "update_buffers", "draw_primary", "draw_spawned", "draw_lights",
               "present", "teardown", "done", "generator"}
    /\ windowShouldClose \in BOOLEAN
    /\ e_pressed_last_frame \in BOOLEAN
    /\ cameraFront \in Fronts
    /\ frame \in Nat
    /\ Len(samples) <= frame
    /\ Len(registryLog) = Len(samples)

\* The calls (by number) whose sample is a rising edge: down now, and up at
\* the previous call, or at the first call, where the latch starts false.
RisingEdges(s) ==
    {k \in 1..Len(s) : s[k] /\ (k = 1 \/ ~s[k - 1])}

\* The registry as it stood before processInput call k.
RegistryBefore(k) == IF k = 1 THEN <<>> ELSE registryLog[k - 1]

\* The calls (by number) that appended an instance.
SpawnCalls ==
    {k \in 1..Len(registryLog) : Len(registryLog[k]) = Len(RegistryBefore(k)) + 1}

\* C1: the number of instances appended equals the number of rising edges of
\* the sampled spawn-key states, the appends happen exactly at the rising
\* edges, and [false, true, true, false, true] gives exactly 2 spawns, at the
\* 2nd and 5th samples.
C1_SpawnsAreRisingEdges ==
    /\ Len(spawnedSuperellipsoids) = Cardinality(RisingEdges(samples))
    /\ SpawnCalls = RisingEdges(samples)
    /\ \A k \in 1..Len(registryLog) :
          Len(registryLog[k]) \in {Len(RegistryBefore(k)), Len(RegistryBefore(k)) + 1}
    /\ samples = <<FALSE, TRUE, TRUE, FALSE, TRUE>> =>
          /\ Len(spawnedSuperellipsoids) = 2
          /\ SpawnCalls = {2, 5}

C1_Witness ==
    /\ samples = <<FALSE, TRUE, TRUE, FALSE, TRUE>>
    /\ Len(spawnedSuperellipsoids) = 2
    /\ pc = "regenerate"

\* C2: an instance appended by a spawn lies at the camera position plus twice
\* the camera's forward direction, both as they are when that processInput
\* call returns (the movement keys of the call applied), and no recorded
\* position changes afterwards.
C2_SpawnAtCameraPlusForward ==
    [][/\ \A k \in 1..Len(spawnedSuperellipsoids) :
             /\ k <= Len(spawnedSuperellipsoids')
             /\ spawnedSuperellipsoids'[k] = spawnedSuperellipsoids[k]
       /\ Len(spawnedSuperellipsoids') > Len(spawnedSuperellipsoids) =>
             /\ Len(spawnedSuperellipsoids') = Len(spawnedSuperellipsoids) + 1
             /\ spawnedSuperellipsoids'[Len(spawnedSuperellipsoids')] =
                   <<cameraPosition'[1] + 2 * cameraFront'[1],
                     cameraPosition'[2] + 2 * cameraFront'[2],
                     cameraPosition'[3] + 2 * cameraFront'[3]>>]_vars

\* The camera moved in the first call, which also spawned; it has since turned
\* and moved again, and the entry is still where it was recorded.
C2_Witness ==
    /\ frame = 2
    /\ pc = "regenerate"
    /\ Len(registryLog[1]) = 1
    /\ spawnedSuperellipsoids = <<<<1, 0, 1>>>>
    /\ cameraFront = <<1, 0, 0>>
    /\ cameraPosition = <<0, 0, 3>>

\* C3: processInput has run exactly once in every frame the loop has started
\* (not yet in the frame that is about to call it), and the latch equals the
\* spawn-key state sampled by the latest call.
C3_LatchIsLastSample ==
    /\ pc # "generator" =>
          Len(samples) = (IF pc = "input" THEN frame - 1 ELSE frame)
    /\ Len(samples) > 0 => e_pressed_last_frame = samples[Len(samples)]
    /\ Len(samples) = 0 => e_pressed_last_frame = FALSE

\* A call that sampled the key up after a spawn, with the close request set by
\* the same call (frame 2, and the loop would not have started it otherwise).
C3_Witness ==
    /\ frame = 2
    /\ pc = "regenerate"
    /\ windowShouldClose
    /\ samples = <<TRUE, FALSE>>
    /\ Len(spawnedSuperellipsoids) = 1
    /\ ~e_pressed_last_frame

\* C4: the registry is append-only: from one frame to the next it keeps its
\* entries in place and grows by at most one, the registry of every earlier
\* frame is a prefix of the registry of every later frame, and of the current
\* registry.
C4_RegistryAppendOnly ==
    /\ \A k \in 1..Len(registryLog) :
          /\ IsPrefix(RegistryBefore(k), registryLog[k])
          /\ Len(registryLog[k]) <= Len(RegistryBefore(k)) + 1
          /\ \A m \in k..Len(registryLog) : IsPrefix(registryLog[k], registryLog[m])
          /\ IsPrefix(registryLog[k], spawnedSuperellipsoids)
    /\ Len(spawnedSuperellipsoids) <= frame
    /\ Len(registryLog) > 0 =>
          Len(spawnedSuperellipsoids) = Len(registryLog[Len(registryLog)])

\* Two instances at different places, spawned in different frames.
C4_Witness ==
    /\ Len(spawnedSuperellipsoids) = 2
    /\ spawnedSuperellipsoids[1] # spawnedSuperellipsoids[2]
    /\ Len(registryLog) = 3
    /\ Len(registryLog[1]) = 1

\* The positions of the instance draws of a frame log, in order.
RECURSIVE InstancesDrawn(_)
InstancesDrawn(log) ==
    IF log = <<>> THEN <<>>
    ELSE IF Head(log).op = "draw_instance"
         THEN <<Head(log).arg>> \o InstancesDrawn(Tail(log))
         ELSE InstancesDrawn(Tail(log))

\* C5: only processInput writes the registry and the latch: every other step
\* (startup, regeneration, buffer update, draws, present, teardown) leaves
\* both unchanged, and the draw loop visits the registry's positions in
\* insertion order.
C5_SpawnIsSoleWriter ==
    [][/\ pc # "input" =>
             /\ spawnedSuperellipsoids' = spawnedSuperellipsoids
             /\ e_pressed_last_frame' = e_pressed_last_frame
       /\ pc = "draw_spawned" =>
             /\ InstancesDrawn(frameLog') = spawnedSuperellipsoids
             /\ InstancesDrawn(frameLog') = spawnedSuperellipsoids']_vars

\* The third frame has drawn two instances, spawned in the first and third
\* frames at different places; the first two frames drew the first one alone.
C5_Witness ==
    /\ pc = "draw_lights"
    /\ frame = 3
    /\ Len(registryLog[1]) = 1
    /\ Len(registryLog[2]) = 1
    /\ Len(spawnedSuperellipsoids) = 2
    /\ spawnedSuperellipsoids[1] # spawnedSuperellipsoids[2]
    /\ InstancesDrawn(frameLog) = spawnedSuperellipsoids

\* C6: after a generator call with stacks, slices >= 1 the vertex container
\* holds (stacks+1)*(slices+1) vertices, the index container 6*stacks*slices
\* indices, and every index is below the vertex count.
C6_MeshCounts ==
    (pc = "generator" /\ genCalls > 0) =>
        /\ genArgs.stacks >= 1 /\ genArgs.slices >= 1
        /\ Len(superellipsoidVertices) = (genArgs.stacks + 1) * (genArgs.slices + 1)
        /\ Len(superellipsoidIndices) = 6 * genArgs.stacks * genArgs.slices
        /\ \A k \in 1..Len(superellipsoidIndices) :
              /\ superellipsoidIndices[k] >= 0
              /\ superellipsoidIndices[k] < Len(superellipsoidVertices)

\* A second call on the same containers, at a resolution that is not square.
C6_Witness ==
    /\ pc = "generator"
    /\ genCalls = 2
    /\ genArgs.stacks = 3
    /\ genArgs.slices = 2
    /\ Len(superellipsoidVertices) = 12
    /\ Len(superellipsoidIndices) = 36

\* Whether vertex number n (from 0) is the grid sample (i, j).
IsSample(n, i, j) ==
    /\ n + 1 <= Len(superellipsoidVertices)
    /\ superellipsoidVertices[n + 1].u[1] = i
    /\ superellipsoidVertices[n + 1].v[1] = j

\* C7: cell (i, j), the (i*slices + j)-th in row-major order, contributes the
\* six indices (first, second, first+1, second, second+1, first+1) with
\* first = i*(slices+1)+j and second = first+slices+1; grid sample (i, j) is
\* stored at i*(slices+1)+j, so these are the corners (i,j), (i+1,j), (i,j+1)
\* and (i+1,j+1) of the cell.
C7_CellTriangles ==
    (pc = "generator" /\ genCalls > 0) =>
        LET stacks == genArgs.stacks
            slices == genArgs.slices
        IN  /\ \A i \in 0..stacks, j \in 0..slices :
                  IsSample(i * (slices + 1) + j, i, j)
            /\ \A i \in 0..(stacks - 1), j \in 0..(slices - 1) :
                  LET cell   == i * slices + j
                      first  == i * (slices + 1) + j
                      second == first + slices + 1
                  IN  /\ 6 * cell + 6 <= Len(superellipsoidIndices)
                      /\ superellipsoidIndices[6 * cell + 1] = first
                      /\ superellipsoidIndices[6 * cell + 2] = second
                      /\ superellipsoidIndices[6 * cell + 3] = first + 1
                      /\ superellipsoidIndices[6 * cell + 4] = second
                      /\ superellipsoidIndices[6 * cell + 5] = second + 1
                      /\ superellipsoidIndices[6 * cell + 6] = first + 1
                      /\ IsSample(first, i, j)
                      /\ IsSample(second, i + 1, j)
                      /\ IsSample(first + 1, i, j + 1)
                      /\ IsSample(second + 1, i + 1, j + 1)

\* A mesh of 2 x 3 cells: its last cell (1, 2) has first = 6 and second = 10.
C7_Witness ==
    /\ pc = "generator"
    /\ genCalls > 0
    /\ genArgs.stacks = 2
    /\ genArgs.slices = 3
    /\ Len(superellipsoidIndices) = 36
    /\ superellipsoidIndices[31] = 6
    /\ superellipsoidIndices[32] = 10

\* C8: the vertex and index counts given to glBufferSubData in a frame equal
\* the counts the buffers were allocated with by glBufferData, whatever the
\* exponents, and the reused containers hold exactly that many elements from
\* the allocation on.
C8_UpdateFitsAllocation ==
    /\ bufferUpdate # NoBuffer =>
          /\ bufferAlloc # NoBuffer
          /\ bufferUpdate.vertices = bufferAlloc.vertices
          /\ bufferUpdate.indices = bufferAlloc.indices
    /\ bufferAlloc # NoBuffer =>
          /\ Len(superellipsoidVertices) = bufferAlloc.vertices
          /\ Len(superellipsoidIndices) = bufferAlloc.indices
    /\ (frame >= 2 \/ (frame = 1 /\ pc \notin {"input", "regenerate", "update_buffers"})) =>
          bufferUpdate # NoBuffer

\* The second frame's update, with exponents other than the first frame's and
\* the initial mesh's.
C8_Witness ==
    /\ frame = 2
    /\ pc = "draw_primary"
    /\ genCalls = 3
    /\ genArgs.n1 = 20
    /\ genArgs.n2 = 2
    /\ bufferUpdate = bufferAlloc
    /\ bufferUpdate.vertices = (Stacks + 1) * (Slices + 1)
    /\ bufferUpdate.indices = 6 * Stacks * Slices

\* The log of a complete frame that draws the instances of `registry`.
ExpectedFrameLog(registry) ==
    <<Event("input", <<>>), Event("regenerate", <<>>),
      Event("update_buffers", <<>>), Event("draw_primary", <<>>)>>
    \o [k \in 1..Len(registry) |-> Event("draw_instance", registry[k])]
    \o [i \in 1..4 |-> Event("draw_light", <<i - 1>>)]
    \o <<Event("present", <<>>)>>

IsDraw(e) == e.op \in {"draw_primary", "draw_instance", "draw_light"}

DrawCalls(log) == Len(SelectSeq(log, IsDraw))

\* C9: the steps of a frame run in the order input (with the spawn check),
\* regeneration, buffer update, primary draw, one draw per registry instance
\* in insertion order, 4 light-marker draws; a frame issues 1 + (registry size
\* after its spawn check) + 4 draw calls, so an instance spawned in a frame is
\* drawn in that frame.
C9_FrameOrder ==
    (frame >= 1 /\ pc \notin {"input", "generator"}) =>
        LET registry == registryLog[frame]
            expected == ExpectedFrameLog(registry)
        IN  /\ IsPrefix(frameLog, expected)
            /\ pc = "regenerate" => Len(frameLog) = 1
            /\ pc = "update_buffers" => Len(frameLog) = 2
            /\ pc = "draw_primary" => Len(frameLog) = 3
            /\ pc = "draw_spawned" => Len(frameLog) = 4
            /\ pc = "draw_lights" => Len(frameLog) = 4 + Len(registry)
            /\ pc = "present" =>
                  /\ Len(frameLog) = Len(expected) - 1
                  /\ DrawCalls(frameLog) = 1 + Len(registry) + 4
            /\ pc \in {"loop_top", "teardown", "done"} =>
                  /\ frameLog = expected
                  /\ DrawCalls(frameLog) = 1 + Len(registry) + 4

\* The third frame spawned the second instance and has drawn both: 7 draws.
C9_Witness ==
    /\ pc = "present"
    /\ frame = 3
    /\ Len(registryLog[2]) = 1
    /\ Len(registryLog[3]) = 2
    /\ registryLog[3][1] # registryLog[3][2]
    /\ DrawCalls(frameLog) = 7

\* The step that follows each step of a frame.
StepAfter(p) ==
    CASE p = "input"          -> "regenerate"
      [] p = "regenerate"     -> "update_buffers"
      [] p = "update_buffers" -> "draw_primary"
      [] p = "draw_primary"   -> "draw_spawned"
      [] p = "draw_spawned"   -> "draw_lights"
      [] p = "draw_lights"    -> "present"
      [] p = "present"        -> "loop_top"

FrameSteps == {"input", "regenerate", "update_buffers", "draw_primary",
               "draw_spawned", "draw_lights", "present"}

\* C10: the close request is looked at only at the top of the loop: a frame
\* runs all its steps whether or not the request is set (the frame in which
\* escape sets it included), the top of the loop starts no frame once the
\* request is set and goes to teardown instead, teardown releases every
\* vertex array and buffer created at setup exactly once and exits with
\* status 0, and a program whose close request is set does get there.
C10_CloseAtLoopTopOnly ==
    /\ [][/\ pc \in FrameSteps => pc' = StepAfter(pc)
          /\ pc = "loop_top" =>
                pc' = (IF windowShouldClose THEN "teardown" ELSE "input")
          /\ windowShouldClose => windowShouldClose'
          /\ pc' = "teardown" =>
                /\ pc = "loop_top"
                /\ frame >= 1
                /\ frameLog = ExpectedFrameLog(registryLog[frame])
          /\ pc = "teardown" =>
                /\ pc' = "done"
                /\ exitStatus' = <<0>>
                /\ \A o \in GLObjects : glCreated[o] = 1 /\ glDeleted'[o] = 1
          /\ pc # "teardown" => glDeleted' = glDeleted]_vars
    /\ [](pc # "done" => \A o \in GLObjects : glDeleted[o] = 0)
    /\ windowShouldClose ~> (pc = "done" /\ exitStatus = <<0>>)

\* The escape key set the request in the second frame's input step; that
\* frame was completed and the program ended through teardown.
C10_Witness ==
    /\ pc = "done"
    /\ exitStatus = <<0>>
    /\ frame = 2
    /\ windowShouldClose
    /\ frameLog = ExpectedFrameLog(registryLog[2])
    /\ Len(registryLog[2]) = 1
    /\ Len(registryLog[1]) = 0
    /\ \A o \in GLObjects : glDeleted[o] = 1

\* Whether the startup call `step` was made and failed.
Failed(step) ==
    \E k \in 1..Len(startupResults) : startupResults[k] = StartupResult(step, FALSE)

\* Whether the startup call `step` was made at all.
Attempted(step) ==
    \E k \in 1..Len(startupResults) : startupResults[k].step = step

Printed(text) ==
    \E k \in 1..Len(output) : output[k].text = text

\* C11: once window creation or the loading of the GL functions has failed,
\* the program has printed the diagnostic of that failure and nothing else,
\* has returned a nonzero status and has run no frame, made no spawn check and
\* recorded no instance; a texture that fails to decode is logged, the program
\* neither exits nor fails because of it, finds the loop condition true and
\* ends only after it has run a frame.
C11_StartupFailures ==
    /\ (Failed("window") \/ Failed("glad")) =>
          /\ pc = "done"
          /\ exitStatus # <<>>
          /\ exitStatus[1] # 0
          /\ output = <<Message(IF Failed("window") THEN "Failed to create GLFW window"
                                                    ELSE "Failed to initialize GLAD",
                                <<>>)>>
          /\ ~Attempted("texture")
          /\ frame = 0
          /\ frameLog = <<>>
          /\ samples = <<>>
          /\ registryLog = <<>>
          /\ spawnedSuperellipsoids = <<>>
          /\ genCalls = 0
    /\ Failed("texture") =>
          /\ Printed("Texture failed to load at path: ")
          /\ ~Printed("Failed to create GLFW window")
          /\ ~Printed("Failed to initialize GLAD")
          /\ exitStatus \in {<<>>, <<0>>}
          /\ pc \notin {"create_window", "load_gl", "setup_mesh",
                        "setup_light_cube", "load_texture"}
          /\ (pc = "loop_top" /\ frame = 0) => ~windowShouldClose
          /\ pc \in {"teardown", "done"} => frame >= 1
    /\ (Attempted("texture") /\ ~Failed("texture")) =>
          ~Printed("Texture failed to load at path: ")

\* The window was created and the loading of the GL functions then failed.
C11_Witness ==
    /\ startupResults = <<StartupResult("window", TRUE), StartupResult("glad", FALSE)>>
    /\ pc = "done"
    /\ exitStatus = <<-1>>
    /\ output = <<Message(GladFailedText, <<>>)>>
    /\ frame = 0

\* The texture failed to decode and the second frame has spawned an instance.
C11_TextureWitness ==
    /\ Failed("texture")
    /\ ~textureLoaded
    /\ frame = 2
    /\ pc = "present"
    /\ Len(spawnedSuperellipsoids) = 1
    /\ Printed(SpawnedText)

====
